---- MODULE Spec2Model ----
(***************************************************************************)
(* Model of repo_status_checker.py: the command runner (run_git), the      *)
(* repository classifier (get_repo_status and its helpers), the tree       *)
(* scanner (scan_repos over os.walk) and the reporter (print_results).     *)
(*                                                                         *)
(* Text is a sequence of one-character strings, so that strip, lower,      *)
(* splitlines, startswith, "in" and int() are computed, not assumed.       *)
(***************************************************************************)
EXTENDS Integers, Sequences, FiniteSets, TLC

(***************************************************************************)
(* Bounds of the model.                                                    *)
(***************************************************************************)
\* Directories of the scanned tree, the root included.
MaxDirs == 4
\* Directories of the tree that carry the working-copy marker.
MaxRepos == 2
\* Largest commit count the rev-list queries print.
MaxCount == 2

(***************************************************************************)
(* Python text primitives.                                                 *)
(***************************************************************************)
NL == "\n"

IsSpace(c) == c \in {" ", NL, "\t"}

RECURSIVE LStrip(_)
LStrip(s) ==
    IF s = <<>> THEN <<>>
    ELSE IF IsSpace(Head(s)) THEN LStrip(Tail(s)) ELSE s

RECURSIVE RStrip(_)
RStrip(s) ==
    IF s = <<>> THEN <<>>
    ELSE IF IsSpace(s[Len(s)]) THEN RStrip(SubSeq(s, 1, Len(s) - 1)) ELSE s

\* str.strip()
Strip(s) == RStrip(LStrip(s))

UpperChars == <<"A", "B", "C", "D", "E", "F", "G", "H", "I", "J", "K", "L", "M",
                "N", "O", "P", "Q", "R", "S", "T", "U", "V", "W", "X", "Y", "Z">>
LowerChars == <<"a", "b", "c", "d", "e", "f", "g", "h", "i", "j", "k", "l", "m",
                "n", "o", "p", "q", "r", "s", "t", "u", "v", "w", "x", "y", "z">>

LowerChar(c) ==
    IF \E i \in DOMAIN UpperChars : UpperChars[i] = c
    THEN LowerChars[CHOOSE i \in DOMAIN UpperChars : UpperChars[i] = c]
    ELSE c

\* str.lower()
Lower(s) == [i \in 1..Len(s) |-> LowerChar(s[i])]

\* str.startswith(p)
StartsWith(s, p) == Len(s) >= Len(p) /\ SubSeq(s, 1, Len(p)) = p

\* p in s
Contains(s, p) ==
    \E i \in 1..(Len(s) - Len(p) + 1) : SubSeq(s, i, i + Len(p) - 1) = p

\* str.splitlines(): no trailing empty line, "" gives no line at all.
RECURSIVE SplitLines(_)
SplitLines(s) ==
    IF s = <<>> THEN <<>>
    ELSE IF \E i \in 1..Len(s) : s[i] = NL
         THEN LET i == CHOOSE k \in 1..Len(s) :
                           s[k] = NL /\ \A j \in 1..(k - 1) : s[j] # NL
              IN  <<SubSeq(s, 1, i - 1)>> \o SplitLines(SubSeq(s, i + 1, Len(s)))
         ELSE <<s>>

DigitChars == <<"0", "1", "2", "3", "4", "5", "6", "7", "8", "9">>

IsDigit(c) == \E i \in DOMAIN DigitChars : DigitChars[i] = c

DigitVal(c) == (CHOOSE i \in DOMAIN DigitChars : DigitChars[i] = c) - 1

RECURSIVE DigitsVal(_)
DigitsVal(s) ==
    IF s = <<>> THEN 0
    ELSE 10 * DigitsVal(SubSeq(s, 1, Len(s) - 1)) + DigitVal(s[Len(s)])

\* int(s) of a str: surrounding whitespace, an optional sign, decimal digits.
\* ok = FALSE stands for ValueError.
PyInt(s) ==
    LET t    == Strip(s)
        neg  == t # <<>> /\ Head(t) = "-"
        body == IF t # <<>> /\ Head(t) \in {"-", "+"} THEN Tail(t) ELSE t
    IN  IF body # <<>> /\ \A i \in 1..Len(body) : IsDigit(body[i])
        THEN [ok |-> TRUE, val |-> IF neg THEN 0 - DigitsVal(body) ELSE DigitsVal(body)]
        ELSE [ok |-> FALSE, val |-> 0]

\* The decimal text of a natural number, as git prints a count.
RECURSIVE Decimal(_)
Decimal(n) ==
    IF n < 10 THEN <<DigitChars[n + 1]>>
    ELSE Decimal(n \div 10) \o <<DigitChars[(n % 10) + 1]>>

(***************************************************************************)
(* One git invocation as the operating system answers it: either the       *)
(* process could not be launched (subprocess.run raises), or it ran and    *)
(* left stdout, stderr and a return code.                                  *)
(***************************************************************************)
Ran(stdout, stderr, returncode) ==
    [launched |-> TRUE, stdout |-> stdout, stderr |-> stderr,
     returncode |-> returncode, e |-> <<>>]

LaunchFailure ==
    [launched |-> FALSE, stdout |-> <<>>, stderr |-> <<>>, returncode |-> 0,
     e |-> <<"E", "N", "O", "E", "N", "T">>]

Printed(stdout) == Ran(stdout, <<>>, 0)

FatalText == <<"f", "a", "t", "a", "l", ":", " ", "b", "a", "d">>

Fatal == Ran(<<>>, FatalText \o <<NL>>, 128)

\* run_git as written without its except clause: the launch error propagates.
RunGitNoExcept(inv) ==
    [out |-> Strip(inv.stdout), err |-> Strip(inv.stderr), rc |-> inv.returncode,
     raised |-> ~inv.launched]

\* run_git: (stdout.strip(), stderr.strip(), returncode), or ("", str(e), 1)
\* when subprocess.run raises.  raised = TRUE would be an exception leaving
\* run_git; the except clause catches every Exception.
RunGit(inv) ==
    IF inv.launched
    THEN [out |-> Strip(inv.stdout), err |-> Strip(inv.stderr),
          rc |-> inv.returncode, raised |-> FALSE]
    ELSE [out |-> <<>>, err |-> inv.e, rc |-> 1, raised |-> FALSE]

(***************************************************************************)
(* The classifier's helpers.                                               *)
(***************************************************************************)
TrueText == <<"t", "r", "u", "e">>
HeadText == <<"H", "E", "A", "D">>
UntrackedMark == <<"?", "?">>

\* is_bare_repo
IsBareRepo(inv) == Lower(RunGit(inv).out) = TrueText

\* current_branch_or_head
CurrentBranchOrHead(inv) == RunGit(inv).out

\* has_uncommitted
HasUncommitted(inv) ==
    LET lines == SplitLines(RunGit(inv).out)
    IN  \E i \in 1..Len(lines) :
            lines[i] # <<>> /\ ~StartsWith(lines[i], UntrackedMark)

\* has_untracked
HasUntracked(inv) ==
    LET lines == SplitLines(RunGit(inv).out)
    IN  \E i \in 1..Len(lines) : StartsWith(lines[i], UntrackedMark)

\* upstream_ref: <<>> with isNone = TRUE stands for None.
UpstreamRef(inv) ==
    LET r == RunGit(inv)
    IN  IF r.rc # 0 \/ Contains(Lower(r.err), <<"f", "a", "t", "a", "l">>)
        THEN [isNone |-> TRUE, ref |-> <<>>]
        ELSE [isNone |-> FALSE, ref |-> r.out]

\* "not up": None and the empty string are both falsy.
NotUp(up) == up.isNone \/ up.ref = <<>>

\* int(x or 0)
IntOrZero(out) == IF out = <<>> THEN [ok |-> TRUE, val |-> 0] ELSE PyInt(out)

\* ahead_behind: one try around both conversions, (0, 0) on ValueError.
AheadBehind(aheadInv, behindInv) ==
    LET a == IntOrZero(RunGit(aheadInv).out)
        b == IntOrZero(RunGit(behindInv).out)
    IN  IF a.ok /\ b.ok
        THEN [ahead |-> a.val, behind |-> b.val]
        ELSE [ahead |-> 0, behind |-> 0]

\* unpushed_authors
UnpushedAuthors(inv) ==
    LET lines == SplitLines(RunGit(inv).out)
    IN  {Strip(lines[i]) : i \in {k \in 1..Len(lines) : Strip(lines[k]) # <<>>}}

(***************************************************************************)
(* get_repo_status.  A repository's git answers are a record g with one    *)
(* invocation per call site: bare, branch, status1 (has_uncommitted),      *)
(* status2 (has_untracked), upstream, ahead, behind, log.                  *)
(***************************************************************************)
CategoryOrder ==
    <<"bare", "detached_head", "uncommitted", "untracked", "no_upstream",
      "diverged", "unpushed_ahead", "behind", "clean">>

CategorySet == {CategoryOrder[i] : i \in DOMAIN CategoryOrder}

NoneExtra == [kind |-> "None", ahead |-> 0, behind |-> 0, authors |-> {}]
TupleExtra(a, b) == [kind |-> "tuple", ahead |-> a, behind |-> b, authors |-> {}]
SetExtra(s) == [kind |-> "set", ahead |-> 0, behind |-> 0, authors |-> s]

Returns(status, extra) == [status |-> status, extra |-> extra, raised |-> FALSE]

\* An exception leaving get_repo_status (it has no try of its own).
Propagates == [status |-> "raised", extra |-> NoneExtra, raised |-> TRUE]

\* The tail of get_repo_status with "ahead > 0 and behind >= 0" as its first test.
ByCountsLoose(g) ==
    LET c == AheadBehind(g.ahead, g.behind)
    IN  IF RunGit(g.ahead).raised \/ RunGit(g.behind).raised THEN Propagates
        ELSE IF c.ahead > 0 /\ c.behind >= 0
             THEN Returns("diverged", TupleExtra(c.ahead, c.behind))
        ELSE IF c.behind > 0 THEN Returns("behind", NoneExtra)
        ELSE Returns("clean", NoneExtra)

\* The tail of get_repo_status, lines 150-159.
ByCounts(g) ==
    LET c == AheadBehind(g.ahead, g.behind)
    IN  IF RunGit(g.ahead).raised \/ RunGit(g.behind).raised THEN Propagates
        ELSE IF c.ahead > 0 /\ c.behind > 0
             THEN Returns("diverged", TupleExtra(c.ahead, c.behind))
        ELSE IF c.ahead > 0
             THEN IF RunGit(g.log).raised THEN Propagates
                  ELSE Returns("unpushed_ahead", SetExtra(UnpushedAuthors(g.log)))
        ELSE IF c.behind > 0 THEN Returns("behind", NoneExtra)
        ELSE Returns("clean", NoneExtra)

\* get_repo_status with the detached-HEAD test after the working-tree tests.
GetRepoStatusDirtyFirst(g) ==
    IF IsBareRepo(g.bare) THEN Returns("bare", NoneExtra)
    ELSE IF HasUncommitted(g.status1) THEN Returns("uncommitted", NoneExtra)
    ELSE IF HasUntracked(g.status2) THEN Returns("untracked", NoneExtra)
    ELSE IF CurrentBranchOrHead(g.branch) = HeadText
         THEN Returns("detached_head", NoneExtra)
    ELSE IF NotUp(UpstreamRef(g.upstream)) THEN Returns("no_upstream", NoneExtra)
    ELSE ByCounts(g)

\* get_repo_status, lines 133-148, then the counts.
GetRepoStatus(g) ==
    IF RunGit(g.bare).raised THEN Propagates
    ELSE IF IsBareRepo(g.bare) THEN Returns("bare", NoneExtra)
    ELSE IF RunGit(g.branch).raised THEN Propagates
    ELSE IF CurrentBranchOrHead(g.branch) = HeadText
         THEN Returns("detached_head", NoneExtra)
    ELSE IF RunGit(g.status1).raised THEN Propagates
    ELSE IF HasUncommitted(g.status1) THEN Returns("uncommitted", NoneExtra)
    ELSE IF RunGit(g.status2).raised THEN Propagates
    ELSE IF HasUntracked(g.status2) THEN Returns("untracked", NoneExtra)
    ELSE IF RunGit(g.upstream).raised THEN Propagates
    ELSE IF NotUp(UpstreamRef(g.upstream)) THEN Returns("no_upstream", NoneExtra)
    ELSE ByCounts(g)

(***************************************************************************)
(* The answers git can give at each call site.                             *)
(***************************************************************************)
Txt_true == <<"t", "r", "u", "e", NL>>
Txt_false == <<"f", "a", "l", "s", "e", NL>>
Txt_HEAD == <<"H", "E", "A", "D", NL>>
Txt_main == <<"m", "a", "i", "n", NL>>
Txt_upstream == <<"o", "/", "m", NL>>
Txt_modified == <<" ", "M", " ", "a", NL>>
Txt_untracked == <<"?", "?", " ", "b", NL>>
Txt_authors == <<"A", NL, NL, " ", "B", " ", NL, "A", NL>>

Txt_True == <<"T", "r", "u", "e", NL>>
Txt_warning == <<"w", "a", "r", "n", ":", " ", "F", "a", "t", "a", "l", NL>>

BareAnswers ==
    {LaunchFailure, Fatal, Printed(Txt_true), Printed(Txt_True), Printed(Txt_false)}

BranchAnswers == {LaunchFailure, Fatal, Printed(Txt_HEAD), Printed(Txt_main)}

StatusAnswers ==
    {LaunchFailure, Printed(<<>>), Printed(Txt_modified), Printed(Txt_untracked),
     Printed(Txt_untracked \o Txt_modified)}

UpstreamAnswers ==
    {LaunchFailure, Fatal, Printed(<<>>), Printed(Txt_upstream),
     Ran(Txt_upstream, Txt_warning, 0)}

\* rev-list --count prints an unsigned decimal; "x" stands for any text that
\* is not a number.
CountAnswers ==
    {LaunchFailure, Fatal, Printed(<<"x", NL>>)}
        \cup {Printed(Decimal(n) \o <<NL>>) : n \in 0..MaxCount}

LogAnswers == {LaunchFailure, Printed(<<>>), Printed(Txt_authors)}

World(bare, branch, status1, status2, upstream, ahead, behind, log) ==
    [bare |-> bare, branch |-> branch, status1 |-> status1, status2 |-> status2,
     upstream |-> upstream, ahead |-> ahead, behind |-> behind, log |-> log]

AllWorlds ==
    [bare : BareAnswers, branch : BranchAnswers, status1 : StatusAnswers,
     status2 : StatusAnswers, upstream : UpstreamAnswers, ahead : CountAnswers,
     behind : CountAnswers, log : LogAnswers]

\* The answers the scanner's repositories give.  In AllFail no git process
\* can be launched; in UntrackedWorld the first status invocation cannot be
\* launched and the second one can; the others are a diverged, an ahead, a
\* behind and a clean repository.  (Classify covers every combination.)
AllFail ==
    World(LaunchFailure, LaunchFailure, LaunchFailure, LaunchFailure,
          LaunchFailure, LaunchFailure, LaunchFailure, LaunchFailure)

Tracking(status1, status2, ahead, behind, log) ==
    World(Printed(Txt_false), Printed(Txt_main), status1, status2,
          Printed(Txt_upstream), Printed(Decimal(ahead) \o <<NL>>),
          Printed(Decimal(behind) \o <<NL>>), log)

UntrackedWorld ==
    Tracking(LaunchFailure, Printed(Txt_untracked), 0, 0, Printed(<<>>))

ScanWorlds ==
    {AllFail,
     UntrackedWorld,
     Tracking(Printed(<<>>), Printed(<<>>), 1, MaxCount, Printed(Txt_authors)),
     Tracking(Printed(<<>>), Printed(<<>>), 1, 0, Printed(Txt_authors)),
     Tracking(Printed(<<>>), Printed(<<>>), 0, 1, Printed(<<>>)),
     Tracking(Printed(<<>>), Printed(<<>>), 0, 0, Printed(<<>>))}

\* Each of those repositories with what get_repo_status returns for it.
ScanAnswers == {<<g, GetRepoStatus(g)>> : g \in ScanWorlds}

(***************************************************************************)
(* State.                                                                  *)
(*   parent, dotgit, gitfile  the scanned tree: directory d's parent, the  *)
(*                   directories named ".git", and the directories that    *)
(*                   hold ".git" as a file (a linked working tree)         *)
(*   recursive       scan_repos' flag                                      *)
(*   pc              "scan", "scanned", "aborted", "printed" for the       *)
(*                   program; "classify", "classified" for one call of     *)
(*                   get_repo_status on its own                            *)
(*   stack           os.walk's pending directories, next one first         *)
(*   visited         the directories os.walk has yielded, in order         *)
(*   classified      the directories get_repo_status was called on         *)
(*   repo_statuses, diverged_info, unpushed_info   scan_repos' locals      *)
(*   git             the answers git gave for the last classified          *)
(*                   repository                                            *)
(*   result          what get_repo_status returned for it                  *)
(*   skip_clean, output   print_results' flag and the lines it printed     *)
(***************************************************************************)
VARIABLES parent, dotgit, gitfile, recursive, pc, stack, visited, classified,
          repo_statuses, diverged_info, unpushed_info, git, result,
          skip_clean, output

vars == <<parent, dotgit, gitfile, recursive, pc, stack, visited, classified,
          repo_statuses, diverged_info, unpushed_info, git, result,
          skip_clean, output>>

Root == 1
Dirs == 1..MaxDirs

NoResult == [status |-> "none", extra |-> NoneExtra, raised |-> FALSE]

(***************************************************************************)
(* The tree and os.walk.                                                   *)
(***************************************************************************)
Children(d) == {c \in Dirs \ {Root} : parent[c] = d}

\* is_git_dir: ".git" exists under path as a directory or as a file.
IsGitDir(d) == (\E c \in Children(d) : c \in dotgit) \/ d \in gitfile

\* The dirnames os.walk lists for d.
RECURSIVE Listed(_)
Listed(S) ==
    IF S = {} THEN <<>>
    ELSE LET m == CHOOSE x \in S : \A y \in S : x <= y
         IN  <<m>> \o Listed(S \ {m})

Dirnames(d) == Listed(Children(d))

\* dirnames.remove(".git") when ".git" is in dirnames.
RemoveDotGit(dirnames) ==
    LET Keep(c) == c \notin dotgit IN SelectSeq(dirnames, Keep)

\* The loop body's pruning without the depth test of the non-repository branch.
KeptDirnamesNoDepthStop(d, isGit) ==
    IF isGit /\ ~recursive THEN <<>> ELSE RemoveDotGit(Dirnames(d))

\* The loop body's pruning without "dirnames[:] = []" in the repository branch.
KeptDirnamesNoRepoStop(d, isGit) ==
    IF ~isGit /\ ~recursive /\ d # Root THEN <<>> ELSE RemoveDotGit(Dirnames(d))

\* The loop body's pruning without dirnames.remove(".git") in the repository branch.
KeptDirnamesKeepDotGit(d, isGit) ==
    IF isGit
    THEN IF ~recursive THEN <<>> ELSE Dirnames(d)
    ELSE IF ~recursive /\ d # Root THEN <<>> ELSE RemoveDotGit(Dirnames(d))

\* What the loop body leaves in dirnames for os.walk to descend into.
KeptDirnames(d, isGit) ==
    IF isGit
    THEN IF ~recursive THEN <<>> ELSE RemoveDotGit(Dirnames(d))
    ELSE IF ~recursive /\ d # Root THEN <<>> ELSE RemoveDotGit(Dirnames(d))

\* diverged_info written for every tuple-or-not result.
DivergedInfoAlways(info, d, r) ==
    (d :> <<r.extra.ahead, r.extra.behind>>) @@ info

\* diverged_info after the loop body, lines 183-184.
DivergedInfoAfter(info, d, r) ==
    IF r.status = "diverged" /\ r.extra.kind = "tuple"
    THEN (d :> <<r.extra.ahead, r.extra.behind>>) @@ info
    ELSE info

\* unpushed_info after the loop body, lines 185-186.
UnpushedInfoAfter(info, d, r) ==
    IF r.status # "diverged" /\ r.status = "unpushed_ahead" /\ r.extra.kind = "set"
    THEN (d :> r.extra.authors) @@ info
    ELSE info

NoInfo == [d \in {} |-> 0]

Init ==
    /\ parent \in {f \in [Dirs \ {Root} -> Dirs] : \A d \in Dirs \ {Root} : f[d] < d}
    /\ dotgit \in {S \in SUBSET (Dirs \ {Root}) :
                        \A a, b \in S : a # b => parent[a] # parent[b]}
    /\ gitfile \in {S \in SUBSET Dirs :
                        \A d \in S : \A c \in dotgit : parent[c] # d}
    /\ Cardinality({d \in Dirs : IsGitDir(d)}) <= MaxRepos
    /\ recursive \in BOOLEAN
    /\ pc = "scan"
    /\ stack = <<Root>>
    /\ visited = <<>>
    /\ classified = <<>>
    /\ repo_statuses = [k \in CategorySet |-> <<>>]
    /\ diverged_info = NoInfo
    /\ unpushed_info = NoInfo
    /\ git = AllFail
    /\ result = NoResult
    /\ skip_clean = FALSE
    /\ output = <<>>

\* One iteration of "for dirpath, dirnames, _ in os.walk(root)" on a directory
\* that carries the marker: lines 179-194.
VisitRepo ==
    /\ pc = "scan"
    /\ stack # <<>>
    /\ IsGitDir(Head(stack))
    /\ \E gr \in ScanAnswers :
         LET d == Head(stack)
             g == gr[1]
             r == gr[2]
         IN  /\ git' = g
             /\ result' = r
             /\ visited' = Append(visited, d)
             /\ classified' = Append(classified, d)
             /\ IF r.raised
                THEN /\ pc' = "aborted"
                     /\ UNCHANGED <<stack, repo_statuses, diverged_info, unpushed_info>>
                ELSE /\ pc' = pc
                     /\ repo_statuses' =
                            [repo_statuses EXCEPT ![r.status] = Append(@, d)]
                     /\ diverged_info' = DivergedInfoAfter(diverged_info, d, r)
                     /\ unpushed_info' = UnpushedInfoAfter(unpushed_info, d, r)
                     /\ stack' = KeptDirnames(d, TRUE) \o Tail(stack)
    /\ UNCHANGED <<parent, dotgit, gitfile, recursive, skip_clean, output>>

\* One iteration on a directory without the marker: lines 195-202.
VisitOther ==
    /\ pc = "scan"
    /\ stack # <<>>
    /\ ~IsGitDir(Head(stack))
    /\ visited' = Append(visited, Head(stack))
    /\ stack' = KeptDirnames(Head(stack), FALSE) \o Tail(stack)
    /\ UNCHANGED <<parent, dotgit, gitfile, recursive, pc, classified,
                   repo_statuses, diverged_info, unpushed_info, git, result,
                   skip_clean, output>>

\* The walk is exhausted: scan_repos returns, line 204.
ScanReturn ==
    /\ pc = "scan"
    /\ stack = <<>>
    /\ pc' = "scanned"
    /\ UNCHANGED <<parent, dotgit, gitfile, recursive, stack, visited, classified,
                   repo_statuses, diverged_info, unpushed_info, git, result,
                   skip_clean, output>>

(***************************************************************************)
(* print_results.  A printed line is a record: its kind, and the category, *)
(* repository, counts and authors it shows.                                *)
(***************************************************************************)
Line(kind, key, repo, a, b, authors, n) ==
    [kind |-> kind, key |-> key, repo |-> repo, ahead |-> a, behind |-> b,
     authors |-> authors, n |-> n]

Plain(kind) == Line(kind, "", 0, 0, 0, {}, 0)

Counted(kind, n) == Line(kind, "", 0, 0, 0, {}, n)

\* sorted(repos)
Sorted(repos) == LET Before(a, b) == a < b IN SortSeq(repos, Before)

\* One repository's line, lines 226-234.
RepoLine(key, repo, div, unp) ==
    IF key = "diverged"
    THEN LET ab == IF repo \in DOMAIN div THEN div[repo] ELSE <<0, 0>>
         IN  Line("repo", key, repo, ab[1], ab[2], {}, 0)
    ELSE IF key = "unpushed_ahead"
    THEN LET authors == IF repo \in DOMAIN unp THEN unp[repo] ELSE {}
         IN  Line(IF authors = {} THEN "repo_unknown_authors" ELSE "repo",
                  key, repo, 0, 0, authors, 0)
    ELSE Line("repo", key, repo, 0, 0, {}, 0)

\* One category's heading and members, lines 218-234.
CategoryListing(key, st, div, unp, skip) ==
    IF st[key] = <<>> \/ (key = "clean" /\ skip) THEN <<>>
    ELSE <<Line("heading", key, 0, 0, 0, {}, 0)>>
            \o [i \in 1..Len(st[key]) |-> RepoLine(key, Sorted(st[key])[i], div, unp)]

\* The per-category listing in CATEGORIES' order, from category i on.
RECURSIVE Listing(_, _, _, _, _)
Listing(i, st, div, unp, skip) ==
    IF i > Len(CategoryOrder) THEN <<>>
    ELSE CategoryListing(CategoryOrder[i], st, div, unp, skip)
            \o Listing(i + 1, st, div, unp, skip)

\* The problems dict after the listing loop, lines 236-237.
Problems(st, skip) ==
    [k \in {c \in CategorySet : st[c] # <<>> /\ ~(c = "clean" /\ skip) /\ c # "clean"}
        |-> st[k]]

RECURSIVE SumLen(_, _)
SumLen(f, keys) ==
    IF keys = {} THEN 0
    ELSE LET k == CHOOSE x \in keys : TRUE
         IN  Len(f[k]) + SumLen(f, keys \ {k})

\* other_problem_count that leaves the 'behind' repositories out.
OtherProblemCountNoBehind(problems) ==
    SumLen(problems, DOMAIN problems \ {"diverged", "unpushed_ahead", "behind"})

\* other_problem_count, lines 242-244.
OtherProblemCount(problems) ==
    SumLen(problems, DOMAIN problems \ {"diverged", "unpushed_ahead"})

\* The clean count line printed whenever there are clean repositories.
CleanCountLinesAnyFlag(st, skip) ==
    IF st["clean"] # <<>> THEN <<Counted("clean_count", Len(st["clean"]))>> ELSE <<>>

\* The clean count line, lines 257-258.
CleanCountLines(st, skip) ==
    IF ~skip /\ st["clean"] # <<>>
    THEN <<Counted("clean_count", Len(st["clean"]))>>
    ELSE <<>>

\* The summary block, lines 240-258.
Summary(st, skip) ==
    LET div_count == Len(st["diverged"])
        up_count == Len(st["unpushed_ahead"])
        other_problem_count == OtherProblemCount(Problems(st, skip))
    IN  <<Plain("blank"), Plain("summary")>>
        \o (IF div_count # 0 THEN <<Counted("diverged_count", div_count)>> ELSE <<>>)
        \o (IF up_count # 0 THEN <<Counted("unpushed_count", up_count)>> ELSE <<>>)
        \o (IF other_problem_count # 0
            THEN <<Counted("other_count", other_problem_count)>> ELSE <<>>)
        \o (IF ~(div_count # 0 \/ up_count # 0 \/ other_problem_count # 0)
            THEN <<Plain("no_problems")>> ELSE <<>>)
        \o CleanCountLines(st, skip)

\* main calls print_results on what scan_repos returned, lines 294-295.
PrintResults ==
    /\ pc = "scanned"
    /\ \E skip \in BOOLEAN :
         /\ skip_clean' = skip
         /\ output' = Listing(1, repo_statuses, diverged_info, unpushed_info, skip)
                          \o Summary(repo_statuses, skip)
    /\ pc' = "printed"
    /\ UNCHANGED <<parent, dotgit, gitfile, recursive, stack, visited, classified,
                   repo_statuses, diverged_info, unpushed_info, git, result>>

Next == VisitRepo \/ VisitOther \/ ScanReturn \/ PrintResults

Spec == Init /\ [][Next]_vars

\* The program is sequential: the loop and main run on until they return.
FairSpec == Spec /\ WF_vars(Next)

(***************************************************************************)
(* get_repo_status on its own, over every combination of git answers.      *)
(***************************************************************************)
InitClassify ==
    /\ git \in AllWorlds
    /\ pc = "classify"
    /\ result = NoResult
    /\ parent = [d \in Dirs \ {Root} |-> Root]
    /\ dotgit = {}
    /\ gitfile = {Root}
    /\ recursive = FALSE
    /\ stack = <<>>
    /\ visited = <<>>
    /\ classified = <<>>
    /\ repo_statuses = [k \in CategorySet |-> <<>>]
    /\ diverged_info = NoInfo
    /\ unpushed_info = NoInfo
    /\ skip_clean = FALSE
    /\ output = <<>>

Classify ==
    /\ pc = "classify"
    /\ result' = GetRepoStatus(git)
    /\ pc' = "classified"
    /\ UNCHANGED <<parent, dotgit, gitfile, recursive, stack, visited, classified,
                   repo_statuses, diverged_info, unpushed_info, git, skip_clean,
                   output>>

SpecClassify == InitClassify /\ [][Classify]_vars

(***************************************************************************)
(* Vocabulary of the properties.                                           *)
(***************************************************************************)
Range(q) == {q[i] : i \in DOMAIN q}

Occurrences(q, x) == Cardinality({i \in DOMAIN q : q[i] = x})

\* d lies strictly below a.
RECURSIVE Below(_, _)
Below(d, a) == d # Root /\ (parent[d] = a \/ Below(parent[d], a))

\* d is a directory named ".git" or lies inside one.
InsideDotGit(d) == d \in dotgit \/ \E a \in dotgit : Below(d, a)

\* The repositories in the category lists.
Reported == UNION {Range(repo_statuses[k]) : k \in CategorySet}

\* How often d stands in the category lists, all lists together.
TimesReported(d) ==
    Cardinality({<<k, i>> \in CategorySet \X (1..MaxDirs) :
                    i \in DOMAIN repo_statuses[k] /\ repo_statuses[k][i] = d})

ScanOver == pc \in {"scanned", "printed"}

Counts == AheadBehind(git.ahead, git.behind)

\* The categories' conditions on one repository's answers, in ranking order.
Conditions ==
    <<IsBareRepo(git.bare),
      CurrentBranchOrHead(git.branch) = HeadText,
      HasUncommitted(git.status1),
      HasUntracked(git.status2),
      NotUp(UpstreamRef(git.upstream)),
      Counts.ahead > 0 /\ Counts.behind > 0,
      Counts.ahead > 0,
      Counts.behind > 0,
      TRUE>>

(***************************************************************************)
(* C1: get_repo_status returns exactly one category of the fixed set, the  *)
(* first in the ranking bare > detached_head > uncommitted > untracked >   *)
(* no_upstream > diverged > unpushed_ahead > behind > clean whose          *)
(* condition holds of the git answers.                                     *)
(***************************************************************************)
C1_FirstCategoryInRanking ==
    pc = "classified" =>
        /\ ~result.raised
        /\ result.status \in CategorySet
        /\ \E i \in DOMAIN CategoryOrder :
              /\ CategoryOrder[i] = result.status
              /\ Conditions[i]
              /\ \A j \in 1..(i - 1) : ~Conditions[j]

\* A detached HEAD with uncommitted changes and untracked files was classified.
C1_Witness ==
    /\ pc = "classified"
    /\ ~Conditions[1] /\ Conditions[2] /\ Conditions[3] /\ Conditions[4]
    /\ result.status = "detached_head"

(***************************************************************************)
(* C3: 'diverged' comes with the pair (ahead, behind), both above zero;    *)
(* 'unpushed_ahead' comes with the author set and computed counts          *)
(* ahead > 0, behind = 0; every other category comes with None.            *)
(***************************************************************************)
C3_ExtraMatchesCategory ==
    pc = "classified" =>
        /\ result.status = "diverged" =>
              /\ result.extra = TupleExtra(Counts.ahead, Counts.behind)
              /\ result.extra.ahead > 0 /\ result.extra.behind > 0
        /\ result.status = "unpushed_ahead" =>
              /\ Counts.ahead > 0 /\ Counts.behind = 0
              /\ result.extra = SetExtra(UnpushedAuthors(git.log))
        /\ result.status \notin {"diverged", "unpushed_ahead"} =>
              result.extra = NoneExtra

\* An ahead-only repository was classified and its two authors were read.
C3_Witness ==
    /\ pc = "classified"
    /\ result.status = "unpushed_ahead"
    /\ Cardinality(result.extra.authors) = 2

(***************************************************************************)
(* C7: in ahead_behind each count is its own output parsed, or 0 when that *)
(* output does not parse, independently of the other count.                *)
(***************************************************************************)
\* The counts as the claim has them: each output parsed on its own.
AheadBehindEach(aheadInv, behindInv) ==
    LET a == IntOrZero(RunGit(aheadInv).out)
        b == IntOrZero(RunGit(behindInv).out)
    IN  [ahead |-> IF a.ok THEN a.val ELSE 0, behind |-> IF b.ok THEN b.val ELSE 0]

C7_CountsIndependent ==
    (pc = "classified"
        /\ result.status \in {"diverged", "unpushed_ahead", "behind", "clean"})
    => Counts = AheadBehindEach(git.ahead, git.behind)

(***************************************************************************)
(* C2: during the scan and in its result every repository classified so    *)
(* far stands in exactly one category list, once; diverged_info has        *)
(* entries only for members of 'diverged', unpushed_info only for members  *)
(* of 'unpushed_ahead'.                                                    *)
(***************************************************************************)
C2_OneListEach ==
    /\ \A d \in Range(classified) : TimesReported(d) = 1
    /\ Reported \subseteq Range(classified)
    /\ DOMAIN diverged_info \subseteq Range(repo_statuses["diverged"])
    /\ DOMAIN unpushed_info \subseteq Range(repo_statuses["unpushed_ahead"])

\* A scan returned a diverged and an ahead repository, each with its entry.
C2_Witness ==
    /\ pc = "scanned"
    /\ DOMAIN diverged_info # {}
    /\ DOMAIN unpushed_info # {}

(***************************************************************************)
(* C4: a non-recursive scan of a root that is no working copy reports      *)
(* exactly the root's immediate children that carry the marker, and visits *)
(* nothing two or more levels below the root.                              *)
(***************************************************************************)
C4_NonRecursiveTopLevelOnly ==
    (~recursive /\ ~IsGitDir(Root)) =>
        /\ \A d \in Range(visited) : d = Root \/ parent[d] = Root
        /\ Range(classified) \subseteq {d \in Children(Root) : IsGitDir(d)}
        /\ ScanOver =>
              /\ Reported = {d \in Children(Root) : IsGitDir(d)}
              /\ Range(classified) = Reported

\* The tested layout: a repository under the root is reported, and one two
\* levels down is not.
C4_Witness ==
    /\ pc = "scanned" /\ ~recursive /\ ~IsGitDir(Root)
    /\ \E top \in Children(Root) : top \in Reported
    /\ \E nested \in Children(Root) : \E child \in Children(nested) :
          ~IsGitDir(nested) /\ IsGitDir(child) /\ child \notin Reported

(***************************************************************************)
(* C5, as claimed: whatever the recursion setting, nothing below a         *)
(* classified directory is visited.                                        *)
(***************************************************************************)
C5_NeverBelowRepo ==
    \A d \in Range(visited) : \A c \in Range(classified) : ~Below(d, c)

(***************************************************************************)
(* C5, amended: a non-recursive scan visits nothing below a classified     *)
(* directory; a recursive scan never visits a classified directory's .git  *)
(* but does visit each of its other subdirectories before it returns.      *)
(***************************************************************************)
C5_NeverBelowRepoUnlessRecursive ==
    /\ ~recursive => C5_NeverBelowRepo
    /\ \A c \in Range(classified) : \A d \in Children(c) :
          /\ d \in dotgit => d \notin Range(visited)
          /\ (recursive /\ ScanOver /\ d \notin dotgit) => d \in Range(visited)

\* A non-recursive scan returned after classifying a repository that has a
\* marker-carrying subdirectory.
C5_Witness ==
    /\ pc = "scanned" /\ ~recursive
    /\ \E c \in Range(classified) : \E d \in Children(c) :
          d \notin dotgit /\ IsGitDir(d) /\ d \notin Range(visited)

(***************************************************************************)
(* C6: a recursive scan terminates; when it has, every directory that      *)
(* carries the marker and is not inside a .git directory was classified    *)
(* once and recorded once; no directory named .git is ever entered.        *)
(***************************************************************************)
C6_RecursiveScanComplete ==
    /\ recursive => <>(pc = "scanned")
    /\ [](recursive =>
            /\ \A d \in Range(visited) : d \notin dotgit
            /\ \A d \in Dirs : Occurrences(classified, d) <= 1
            /\ ScanOver =>
                  \A d \in Dirs :
                      (IsGitDir(d) /\ ~InsideDotGit(d)) =>
                          Occurrences(classified, d) = 1 /\ TimesReported(d) = 1)

\* A recursive scan returned with a repository and a repository nested in it
\* both classified, the outer one's .git directory not entered.
C6_Witness ==
    /\ pc = "scanned" /\ recursive
    /\ \E c \in Range(classified) :
          /\ \E g \in Children(c) : g \in dotgit /\ g \notin Range(visited)
          /\ \E d \in Range(classified) : Below(d, c)

(***************************************************************************)
(* C8: a git process that cannot be launched never aborts the scan:        *)
(* run_git returns ("", error, 1), get_repo_status still returns a         *)
(* category ('no_upstream' when every launch fails), and the scan          *)
(* classifies every repository it still has to reach.                      *)
(***************************************************************************)
AnswerNames ==
    {"bare", "branch", "status1", "status2", "upstream", "ahead", "behind", "log"}

C8_LaunchFailureNeverAborts ==
    /\ pc # "aborted"
    /\ ~result.raised
    /\ \A f \in AnswerNames :
          ~git[f].launched =>
              RunGit(git[f]) = [out |-> <<>>, err |-> git[f].e, rc |-> 1,
                                raised |-> FALSE]
    /\ classified # <<>> =>
          /\ result.status \in CategorySet
          /\ (\A f \in AnswerNames : ~git[f].launched) => result.status = "no_upstream"
    /\ (ScanOver /\ recursive) =>
          \A d \in Dirs : (IsGitDir(d) /\ ~InsideDotGit(d)) => d \in Reported
    /\ (ScanOver /\ ~recursive) =>
          \A d \in Dirs :
              (IsGitDir(d) /\ (d = Root \/ (parent[d] = Root /\ ~IsGitDir(Root))))
                  => d \in Reported

\* A scan returned after a repository whose every launch failed, and it
\* classified another repository after that one.
C8_Witness ==
    /\ pc = "scanned"
    /\ Len(classified) >= 2
    /\ classified[1] \in Range(repo_statuses["no_upstream"])
    /\ classified[2] \in Reported

\* The printed lines of one kind.
LinesOf(kind) == {i \in DOMAIN output : output[i].kind = kind}

\* Exactly one line of this kind is printed, in the summary block, showing n.
PrintsCount(kind, n) ==
    /\ Cardinality(LinesOf(kind)) = 1
    /\ \A i \in LinesOf(kind) :
          output[i].n = n /\ \E j \in LinesOf("summary") : j < i

CountOf(k) == Len(repo_statuses[k])

(***************************************************************************)
(* C9, as claimed: the clean count line is printed exactly when skip_clean *)
(* is False, also for a result without clean repositories.                 *)
(***************************************************************************)
C9_CleanCountUnlessSkipped ==
    pc = "printed" =>
        IF skip_clean THEN LinesOf("clean_count") = {}
        ELSE PrintsCount("clean_count", CountOf("clean"))

(***************************************************************************)
(* C9, amended: the clean count line is printed exactly when skip_clean is *)
(* False and at least one repository is clean; it shows their number.      *)
(***************************************************************************)
C9_CleanCountWhenCleanAndNotSkipped ==
    pc = "printed" =>
        IF ~skip_clean /\ CountOf("clean") > 0
        THEN PrintsCount("clean_count", CountOf("clean"))
        ELSE LinesOf("clean_count") = {}

\* A report with the clean listing not suppressed showed the clean count.
C9_Witness ==
    /\ pc = "printed" /\ ~skip_clean
    /\ CountOf("clean") > 0
    /\ LinesOf("clean_count") # {}

(***************************************************************************)
(* C10: the summary shows the diverged count, the unpushed_ahead count and *)
(* as other problems the members of bare, detached_head, uncommitted,      *)
(* untracked, no_upstream and behind together, each line exactly when its  *)
(* count is not zero; the no-problems line exactly when all three are      *)
(* zero; the three counts and the clean repositories add up to the         *)
(* repositories discovered.                                                *)
(***************************************************************************)
OtherTotal ==
    CountOf("bare") + CountOf("detached_head") + CountOf("uncommitted")
        + CountOf("untracked") + CountOf("no_upstream") + CountOf("behind")

ShownIffNonZero(kind, n) ==
    IF n # 0 THEN PrintsCount(kind, n) ELSE LinesOf(kind) = {}

C10_SummaryCounts ==
    pc = "printed" =>
        /\ ShownIffNonZero("diverged_count", CountOf("diverged"))
        /\ ShownIffNonZero("unpushed_count", CountOf("unpushed_ahead"))
        /\ ShownIffNonZero("other_count", OtherTotal)
        /\ IF CountOf("diverged") = 0 /\ CountOf("unpushed_ahead") = 0 /\ OtherTotal = 0
           THEN Cardinality(LinesOf("no_problems")) = 1
           ELSE LinesOf("no_problems") = {}
        /\ CountOf("diverged") + CountOf("unpushed_ahead") + OtherTotal
              + CountOf("clean") = Len(classified)

\* A report of a diverged and a behind repository, the clean listing
\* suppressed.
C10_Witness ==
    /\ pc = "printed" /\ skip_clean
    /\ CountOf("diverged") = 1 /\ CountOf("behind") = 1
    /\ LinesOf("other_count") # {}

====
